---- MODULE Spec2Model ----
(***************************************************************************)
(* Model of ingenious/chunk/strategy/langchain_semantic.py: the "semantic" *)
(* chunking strategy.  create(cfg) builds a base splitter (plain character *)
(* splitter, or SemanticChunker wrapped in the _SafeSemantic fallback) and *)
(* wraps it in SemanticOverlapChunker, whose split_documents / split_text  *)
(* run the base splitter and then inject_overlap.                          *)
(*                                                                         *)
(* Texts are sequences of characters; a token is a short sequence of       *)
(* characters produced by the named encoding.  The semantic splitter and   *)
(* its embedding backend are an oracle whose outcome is drawn per call.    *)
(***************************************************************************)
EXTENDS Integers, Sequences, FiniteSets, TLC

\* ------------------------------------------------------------------ bounds
MaxLen == 4
MaxBatchLen == 2
MaxChunkSize == 3
MaxOverlap == 2

\* ------------------------------------------------------------- characters
SPACE == " "
LETTER == "x"
Chars == {SPACE, LETTER}

\* The empty-string separator "" (split between every two characters).
EMPTY == ""

Min(a, b) == IF a < b THEN a ELSE b
Max(a, b) == IF a > b THEN a ELSE b

TextsUpTo(n) == UNION {[1..k -> Chars] : k \in 0..n}

RECURSIVE Flatten(_)
Flatten(ss) == IF ss = <<>> THEN <<>> ELSE Head(ss) \o Flatten(Tail(ss))

\* ------------------------------------------------------------ unit oracle
Encodings == {"cl100k_base", "p50k_base"}

\* The one two-character token of each encoding's vocabulary.
MergePair(enc) ==
    IF enc = "cl100k_base" THEN <<LETTER, LETTER>> ELSE <<SPACE, LETTER>>

\* encode: greedy left-to-right tokenisation; a token is its character run.
RECURSIVE Encode(_, _)
Encode(enc, s) ==
    IF s = <<>> THEN <<>>
    ELSE IF Len(s) >= 2 /\ SubSeq(s, 1, 2) = MergePair(enc)
         THEN <<SubSeq(s, 1, 2)>> \o Encode(enc, SubSeq(s, 3, Len(s)))
         ELSE <<SubSeq(s, 1, 1)>> \o Encode(enc, Tail(s))

\* decode: the concatenation of the tokens' characters.
Decode(toks) == Flatten(toks)

\* count(text) in the configured unit.
Count(unit, enc, s) ==
    IF unit = "characters" THEN Len(s) ELSE Len(Encode(enc, s))

\* The last k units of s (all of s when it has fewer than k units); token
\* slicing is encode -> slice by token index -> decode.
TailUnits(s, k, unit, enc) ==
    IF unit = "characters"
    THEN SubSeq(s, Len(s) - Min(k, Len(s)) + 1, Len(s))
    ELSE LET t == Encode(enc, s)
             n == Min(k, Len(t))
         IN  Decode(SubSeq(t, Len(t) - n + 1, Len(t)))

\* ------------------------------------------------- deterministic splitter
\* Cut text before every occurrence of sep (the separator stays at the start
\* of the piece it introduces); sep = EMPTY cuts between every two characters.
RECURSIVE SplitOn(_, _, _)
SplitOn(s, sep, cur) ==
    IF s = <<>> THEN (IF cur = <<>> THEN <<>> ELSE <<cur>>)
    ELSE IF cur # <<>> /\ (sep = EMPTY \/ Head(s) = sep)
         THEN <<cur>> \o SplitOn(Tail(s), sep, <<Head(s)>>)
         ELSE SplitOn(Tail(s), sep, cur \o <<Head(s)>>)

\* Greedy merge of consecutive pieces while the summed piece lengths stay
\* within size (chunk_overlap = 0: nothing is carried over to the next chunk).
RECURSIVE MergeSplits(_, _, _, _, _, _)
MergeSplits(pieces, cur, total, size, unit, enc) ==
    IF pieces = <<>> THEN (IF cur = <<>> THEN <<>> ELSE <<cur>>)
    ELSE LET d == Head(pieces)
             l == Count(unit, enc, d)
         IN  IF total + l > size /\ cur # <<>>
             THEN <<cur>> \o MergeSplits(Tail(pieces), d, l, size, unit, enc)
             ELSE MergeSplits(Tail(pieces), cur \o d, total + l, size, unit, enc)

\* Recursive splitting over the separator priority list: pieces shorter than
\* size are merged; a piece that is not is split by the finer separators, or
\* emitted as it is when none is left.
RECURSIVE SplitPieces(_, _, _, _, _, _)
RECURSIVE DetSplitText(_, _, _, _, _)
SplitPieces(pieces, good, rest, size, unit, enc) ==
    IF pieces = <<>> THEN MergeSplits(good, <<>>, 0, size, unit, enc)
    ELSE LET p == Head(pieces) IN
         IF Count(unit, enc, p) < size
         THEN SplitPieces(Tail(pieces), good \o <<p>>, rest, size, unit, enc)
         ELSE MergeSplits(good, <<>>, 0, size, unit, enc)
              \o (IF rest = <<>> THEN <<p>>
                  ELSE DetSplitText(p, rest, size, unit, enc))
              \o SplitPieces(Tail(pieces), <<>>, rest, size, unit, enc)

DetSplitText(s, seps, size, unit, enc) ==
    IF s = <<>> THEN <<>>
    ELSE LET found == {i \in 1..Len(seps) :
                          seps[i] = EMPTY \/ \E j \in 1..Len(s) : s[j] = seps[i]}
             i == IF found = {} THEN Len(seps)
                  ELSE CHOOSE x \in found : \A y \in found : x <= y
             rest == IF found = {} \/ seps[i] = EMPTY THEN <<>>
                     ELSE SubSeq(seps, i + 1, Len(seps))
         IN  SplitPieces(SplitOn(s, seps[i], <<>>), <<>>, rest, size, unit, enc)

\* One chunk record per piece of one document; src is the position of the
\* document in the call's batch (the chunk's derived_from identity).
ChunksOf(doc, src, pieces) ==
    [i \in 1..Len(pieces) |->
        [page_content |-> pieces[i], metadata |-> doc.metadata, src |-> src]]

\* ---------------------------------------------------------- configuration
None == "None"
Units == {"characters", "tokens", "words"}

\* ChunkConfig values handed to create.  The factory reads the fields as they
\* are, so the set holds every combination, valid or not.
Configs ==
    [chunk_size : 1..MaxChunkSize,
     chunk_overlap : 0..MaxOverlap,
     overlap_unit : Units,
     encoding_name : Encodings,
     separators : {<<SPACE, EMPTY>>},
     embed_model : {None},
     azure_openai_deployment : {None, "deployment"}]

\* _select_embeddings
SelectEmbeddings(cfg) ==
    LET model_name == IF cfg.embed_model # None THEN cfg.embed_model
                      ELSE "text-embedding-3-small"
    IN  IF cfg.azure_openai_deployment # None
        THEN [kind |-> "AzureOpenAIEmbeddings", model |-> model_name,
              azure_deployment |-> cfg.azure_openai_deployment]
        ELSE [kind |-> "OpenAIEmbeddings", model |-> model_name,
              azure_deployment |-> None]

\* _SafeSemantic.__init__
SafeSemanticInit(semantic, cfg) ==
    [kind |-> "_SafeSemantic",
     _semantic |-> semantic,
     _backup |-> [kind |-> "RecursiveTokenSplitter",
                  encoding_name |-> cfg.encoding_name,
                  chunk_size |-> cfg.chunk_size,
                  chunk_overlap |-> 0,
                  separators |-> cfg.separators]]

\* SemanticOverlapChunker.__init__
SemanticOverlapChunkerInit(base, overlap, enc_name, unit) ==
    [_base |-> base, _overlap |-> overlap, _enc_name |-> enc_name,
     _unit |-> unit]

\* Variant of create, step 1, that takes the token path whatever the unit.
BaseSplitter_always_semantic(cfg) ==
    SafeSemanticInit(
        [kind |-> "SemanticChunker",
         embeddings |-> SelectEmbeddings(cfg),
         min_chunk_size |-> Max(8, cfg.chunk_size \div 2),
         breakpoint_threshold_amount |-> cfg.chunk_size],
        cfg)

\* create: step 1, the base splitter.
BaseSplitter(cfg) ==
    IF cfg.overlap_unit = "characters"
    THEN [kind |-> "RecursiveCharacterTextSplitter",
          chunk_size |-> cfg.chunk_size,
          chunk_overlap |-> 0,
          separators |-> <<SPACE, EMPTY>>]
    ELSE SafeSemanticInit(
             [kind |-> "SemanticChunker",
              embeddings |-> SelectEmbeddings(cfg),
              min_chunk_size |-> Max(8, cfg.chunk_size \div 2),
              breakpoint_threshold_amount |-> cfg.chunk_size],
             cfg)

\* create
Create(cfg) ==
    SemanticOverlapChunkerInit(BaseSplitter(cfg), cfg.chunk_overlap,
                               cfg.encoding_name, cfg.overlap_unit)

\* --------------------------------------------------------------- documents
Metas == {"m1", "m2"}
EmptyMeta == "{}"

Document(text, metadata) == [page_content |-> text, metadata |-> metadata]

\* ------------------------------------------------------ splitter behaviour
\* Outcomes of one SemanticChunker.split_documents call.  The splitter is a
\* function of the text and of the embedding scores, which the model draws:
\* the embedding call fails, or every document comes back as no chunk, as one
\* chunk, cut in two at a breakpoint, or cut at every character.
SemanticModes(n) ==
    [kind : {"fail", "none", "one", "each"}, at : {0}]
        \cup [kind : {"cut"}, at : 1..(n - 1)]

SemanticSplitText(mode, s) ==
    CASE mode.kind = "none" -> <<>>
      [] mode.kind = "one" -> <<s>>
      [] mode.kind = "each" -> [i \in 1..Len(s) |-> <<s[i]>>]
      [] OTHER -> IF mode.at < Len(s)
                  THEN <<SubSeq(s, 1, mode.at), SubSeq(s, mode.at + 1, Len(s))>>
                  ELSE <<s>>

\* SemanticChunker.split_documents: every document split on its own, each
\* chunk carrying its document's metadata.
SemanticSplitDocuments(mode, docs) ==
    Flatten([i \in 1..Len(docs) |->
        ChunksOf(docs[i], i, SemanticSplitText(mode, docs[i].page_content))])

\* RecursiveTokenSplitter.split_documents (the _backup of _SafeSemantic).
BackupSplitDocuments(backup, docs) ==
    Flatten([i \in 1..Len(docs) |->
        ChunksOf(docs[i], i,
                 DetSplitText(docs[i].page_content, backup.separators,
                              backup.chunk_size, "tokens",
                              backup.encoding_name))])

\* RecursiveCharacterTextSplitter.split_documents (length measured by len).
CharSplitDocuments(base, docs) ==
    Flatten([i \in 1..Len(docs) |->
        ChunksOf(docs[i], i,
                 DetSplitText(docs[i].page_content, base.separators,
                              base.chunk_size, "characters", None))])

\* Variants of line 150 with the comparison off by one, and with no fallback.
GuardDecision_accept_single(out) == IF Len(out) > 0 THEN "ACCEPT" ELSE "FALLBACK"
GuardDecision_no_fallback(out) == "ACCEPT"

\* _SafeSemantic.split_documents, line 150: keep the semantic result or fall
\* back.
GuardDecision(out) == IF Len(out) > 1 THEN "ACCEPT" ELSE "FALLBACK"

\* inject_overlap(chunks, k, unit=, enc_name=)
InjectOverlap(chunks, k, unit, enc) ==
    IF k <= 0 THEN chunks
    ELSE [i \in 1..Len(chunks) |->
            IF i = 1 THEN chunks[i]
            ELSE [chunks[i] EXCEPT !.page_content =
                     TailUnits(chunks[i - 1].page_content, k, unit, enc) \o @]]

\* Variant of lines 87-92 that leaves unit= at inject_overlap's default.
OverlapArgs_default_unit(ch) ==
    [k |-> ch._overlap, unit |-> "tokens", enc |-> ch._enc_name]

\* SemanticOverlapChunker.split_documents, lines 87-92: the arguments the
\* wrapper hands to inject_overlap.
OverlapArgs(ch) == [k |-> ch._overlap, unit |-> ch._unit, enc |-> ch._enc_name]

\* Variant of line 119 that builds the transient document without metadata.
TmpDoc_no_metadata(text, metadata) == Document(text, EmptyMeta)

\* split_text, line 119
TmpDoc(text, metadata) ==
    Document(text, IF metadata = None \/ metadata = EmptyMeta THEN EmptyMeta
                   ELSE metadata)

\* split_text, line 121
TextReturn(docs, return_docs) ==
    IF return_docs THEN docs ELSE [i \in 1..Len(docs) |-> docs[i].page_content]

\* ------------------------------------------------------------------- state
VARIABLES
    workload,   \* which clients call, and with which documents
    cfg,        \* the ChunkConfig handed to create
    created,    \* "pending" until create has returned
    chunker,    \* the SemanticOverlapChunker create returned
    call        \* per client: the split call in flight

vars == <<workload, cfg, created, chunker, call>>

Callers == {"c1", "c2"}
NoChunker == [_base |-> None, _overlap |-> 0, _enc_name |-> None, _unit |-> None]
NoMode == [kind |-> "unset", at |-> 0]

IdleCall ==
    [pc |-> "idle", api |-> None, docs |-> <<>>, meta_arg |-> None,
     return_docs |-> TRUE,
     mode |-> NoMode, sem |-> <<>>, guard |-> None, raw |-> <<>>,
     out |-> <<>>, ret |-> <<>>, semCalled |-> FALSE, backupCalled |-> FALSE,
     injected |-> FALSE, error |-> None]

\* Texts two clients split at the same time.
ConcTexts == {<<LETTER>>, <<LETTER, SPACE, LETTER, LETTER>>}

ActiveCallers(w) == IF w = "concurrent" THEN Callers ELSE {"c1"}

WorkTexts(w) ==
    CASE w = "single" -> TextsUpTo(MaxLen)
      [] w = "batch" -> TextsUpTo(MaxBatchLen)
      [] OTHER -> ConcTexts

\* The document lists a client passes to split_documents.
WorkDocs(w, c) ==
    CASE w = "single" ->
            {<<Document(t, m)>> : t \in TextsUpTo(MaxLen), m \in Metas}
      [] w = "batch" ->
            {<<Document(t, m)>> : t \in TextsUpTo(MaxBatchLen), m \in Metas}
                \cup {<<Document(t[1], "m1"), Document(t[2], "m2")>> :
                         t \in TextsUpTo(MaxBatchLen) \X TextsUpTo(MaxBatchLen)}
      [] OTHER ->
            {<<Document(t, IF c = "c1" THEN "m1" ELSE "m2")>> : t \in ConcTexts}

WorkMetaArgs(w) ==
    IF w = "concurrent" THEN {None} ELSE {None, EmptyMeta, "m1"}

\* The longest text a client of the workload sends.
WorkMaxLen(w) ==
    CASE w = "single" -> MaxLen
      [] w = "batch" -> MaxBatchLen
      [] OTHER -> Len(<<LETTER, SPACE, LETTER, LETTER>>)

TypeOK ==
    /\ workload \in {"single", "batch", "concurrent"}
    /\ cfg \in Configs
    /\ created \in {"pending", "ok"}
    /\ DOMAIN call = Callers

InitWith(w) ==
    /\ workload = w
    /\ cfg \in Configs
    /\ created = "pending"
    /\ chunker = NoChunker
    /\ call = [c \in Callers |-> IdleCall]

Init == InitWith("single")
InitBatch == InitWith("batch")
InitConc == InitWith("concurrent") /\ cfg.azure_openai_deployment = None

\* ----------------------------------------------------------------- actions
\* create(cfg): returns the wrapped chunker.
CreateChunker ==
    /\ created = "pending"
    /\ chunker' = Create(cfg)
    /\ created' = "ok"
    /\ UNCHANGED <<workload, cfg, call>>

\* A split call can be made once create has returned.  Calls on a chunker
\* whose unit is neither "characters" nor "tokens" are not followed further.
CanCall(c) ==
    /\ created = "ok"
    /\ chunker._unit \in {"characters", "tokens"}
    /\ c \in ActiveCallers(workload)
    /\ call[c].pc = "idle"

\* SemanticOverlapChunker.split_documents(docs): entry.  docs is a list, as
\* split_text passes it: both splitters of the token path can traverse it.
StartSplitDocuments(c, docs) ==
    /\ CanCall(c)
    /\ call' = [call EXCEPT ![c] =
                   [IdleCall EXCEPT !.pc = "called", !.api = "split_documents",
                                    !.docs = docs]]
    /\ UNCHANGED <<workload, cfg, created, chunker>>

\* SemanticOverlapChunker.split_text(text, metadata=, return_docs=): entry;
\* the text is wrapped in one transient document.
StartSplitText(c, text, metadata, return_docs) ==
    /\ CanCall(c)
    /\ call' = [call EXCEPT ![c] =
                   [IdleCall EXCEPT !.pc = "called", !.api = "split_text",
                                    !.docs = <<TmpDoc(text, metadata)>>,
                                    !.meta_arg = metadata,
                                    !.return_docs = return_docs]]
    /\ UNCHANGED <<workload, cfg, created, chunker>>

\* Character path: self._base.split_documents(docs) is the plain splitter.
BaseCharacters(c) ==
    /\ call[c].pc = "called"
    /\ chunker._base.kind = "RecursiveCharacterTextSplitter"
    /\ call' = [call EXCEPT ![c].pc = "raw",
                            ![c].raw = CharSplitDocuments(chunker._base, call[c].docs)]
    /\ UNCHANGED <<workload, cfg, created, chunker>>

\* Variant of line 148 that catches the embedding failure and goes on as if
\* the semantic pass had produced nothing.
TrySemantic_swallow(c, mode) ==
    /\ call[c].pc = "called"
    /\ chunker._base.kind = "_SafeSemantic"
    /\ call' = [call EXCEPT ![c] =
                   [@ EXCEPT !.pc = "semantic_returned", !.mode = mode,
                             !.semCalled = TRUE,
                             !.sem = IF mode.kind = "fail" THEN <<>>
                                     ELSE SemanticSplitDocuments(mode, call[c].docs)]]
    /\ UNCHANGED <<workload, cfg, created, chunker>>

\* _SafeSemantic.split_documents, line 148: the semantic pass.  An embedding
\* failure is an exception that nothing on the way to the caller catches.
TrySemantic(c, mode) ==
    /\ call[c].pc = "called"
    /\ chunker._base.kind = "_SafeSemantic"
    /\ call' = [call EXCEPT ![c] =
                   IF mode.kind = "fail"
                   THEN [@ EXCEPT !.pc = "raised", !.mode = mode,
                                  !.semCalled = TRUE,
                                  !.error = "OracleFailure"]
                   ELSE [@ EXCEPT !.pc = "semantic_returned", !.mode = mode,
                                  !.semCalled = TRUE,
                                  !.sem = SemanticSplitDocuments(mode, call[c].docs)]]
    /\ UNCHANGED <<workload, cfg, created, chunker>>

\* Variant of line 150 that remembers a fallback on the object: once the
\* semantic pass has collapsed, the backup splitter replaces it.
Guard_memo(c) ==
    /\ call[c].pc = "semantic_returned"
    /\ LET d == GuardDecision(call[c].sem) IN
       /\ call' = [call EXCEPT ![c] =
                     IF d = "ACCEPT"
                     THEN [@ EXCEPT !.pc = "raw", !.guard = d, !.raw = call[c].sem]
                     ELSE [@ EXCEPT !.pc = "raw", !.guard = d,
                                    !.backupCalled = TRUE,
                                    !.raw = BackupSplitDocuments(
                                                chunker._base._backup, call[c].docs)]]
       /\ chunker' = IF d = "ACCEPT" THEN chunker
                     ELSE [chunker EXCEPT !._base._semantic = chunker._base._backup]
    /\ UNCHANGED <<workload, cfg, created>>

\* _SafeSemantic.split_documents, line 150.
Guard(c) ==
    /\ call[c].pc = "semantic_returned"
    /\ LET d == GuardDecision(call[c].sem) IN
       call' = [call EXCEPT ![c] =
                   IF d = "ACCEPT"
                   THEN [@ EXCEPT !.pc = "raw", !.guard = d, !.raw = call[c].sem]
                   ELSE [@ EXCEPT !.pc = "raw", !.guard = d,
                                  !.backupCalled = TRUE,
                                  !.raw = BackupSplitDocuments(
                                              chunker._base._backup, call[c].docs)]]
    /\ UNCHANGED <<workload, cfg, created, chunker>>

\* SemanticOverlapChunker.split_documents, lines 87-92.
Inject(c) ==
    /\ call[c].pc = "raw"
    /\ LET a == OverlapArgs(chunker) IN
       call' = [call EXCEPT ![c].pc = "injected", ![c].injected = TRUE,
                            ![c].out = InjectOverlap(call[c].raw, a.k, a.unit, a.enc)]
    /\ UNCHANGED <<workload, cfg, created, chunker>>

\* The call returns: the documents, or for split_text what line 121 makes
\* of them.
Return(c) ==
    /\ call[c].pc = "injected"
    /\ call' = [call EXCEPT ![c].pc = "done",
                            ![c].ret = IF call[c].api = "split_text"
                                       THEN TextReturn(call[c].out, call[c].return_docs)
                                       ELSE call[c].out]
    /\ UNCHANGED <<workload, cfg, created, chunker>>

\* The client takes the result (or the exception) and may call again.
Finish(c) ==
    /\ call[c].pc \in {"done", "raised"}
    /\ call' = [call EXCEPT ![c] = IdleCall]
    /\ UNCHANGED <<workload, cfg, created, chunker>>

Next ==
    \/ CreateChunker
    \/ \E c \in Callers :
          /\ CanCall(c)
          /\ \E docs \in WorkDocs(workload, c) : StartSplitDocuments(c, docs)
    \/ \E c \in Callers :
          /\ CanCall(c)
          /\ \E text \in WorkTexts(workload) :
                \E metadata \in WorkMetaArgs(workload) : \E return_docs \in BOOLEAN :
                   StartSplitText(c, text, metadata, return_docs)
    \/ \E c \in Callers : BaseCharacters(c)
    \/ \E c \in Callers :
          /\ call[c].pc = "called"
          /\ \E mode \in SemanticModes(WorkMaxLen(workload)) : TrySemantic(c, mode)
    \/ \E c \in Callers : Guard(c)
    \/ \E c \in Callers : Inject(c)
    \/ \E c \in Callers : Return(c)
    \/ \E c \in Callers : Finish(c)

Spec == Init /\ [][Next]_vars
SpecBatch == InitBatch /\ [][Next]_vars
SpecConc == InitConc /\ [][Next]_vars

\* ------------------------------------------------------------------ claims
TokenPath == cfg.overlap_unit = "tokens"
CharacterPath == cfg.overlap_unit = "characters"

\* The deterministic splitter of the token path as the configuration
\* describes it: same chunk_size, chunk_overlap = 0.
DeterministicSplit(docs) ==
    BackupSplitDocuments(
        [kind |-> "RecursiveTokenSplitter", encoding_name |-> cfg.encoding_name,
         chunk_size |-> cfg.chunk_size, chunk_overlap |-> 0,
         separators |-> cfg.separators], docs)

\* The units of a text: its characters, or its tokens under enc.
UnitsOf(s, unit, enc) ==
    IF unit = "characters" THEN [i \in 1..Len(s) |-> <<s[i]>>] ELSE Encode(enc, s)

\* The text of the last k units of s, all of s when it has fewer.
LastUnits(s, k, unit, enc) ==
    LET u == UnitsOf(s, unit, enc)
        n == IF Len(u) < k THEN Len(u) ELSE k
    IN  Flatten(SubSeq(u, Len(u) - n + 1, Len(u)))

C3_OracleFailurePropagates ==
    \A c \in Callers :
        LET k == call[c] IN
        /\ k.mode.kind = "fail" =>
               /\ k.pc = "raised"
               /\ k.error = "OracleFailure"
               /\ ~k.backupCalled
               /\ ~k.injected
               /\ k.raw = <<>> /\ k.out = <<>> /\ k.ret = <<>>
        /\ k.backupCalled => (k.mode.kind # "fail" /\ Len(k.sem) <= 1)
        /\ k.pc = "raised" => k.mode.kind = "fail"

C3_Witness ==
    \E c \in Callers :
        /\ call[c].pc = "raised"
        /\ call[c].error = "OracleFailure"
        /\ call[c].docs # <<>>
        /\ call[c].docs[1].page_content # <<>>

\* C4: with overlap k > 0 and at least two raw chunks, the final sequence has
\* the raw sequence's length and order, its first chunk is the first raw
\* chunk, and every later chunk is the last k units of the raw predecessor
\* (all of it when it has fewer) followed by the raw chunk itself.
C4_OverlapFromRawPredecessor ==
    \A c \in Callers :
        LET k == call[c] IN
        (k.pc \in {"injected", "done"} /\ cfg.chunk_overlap > 0 /\ Len(k.raw) >= 2) =>
            /\ Len(k.out) = Len(k.raw)
            /\ k.out[1] = k.raw[1]
            /\ \A i \in 2..Len(k.raw) :
                   /\ k.out[i].src = k.raw[i].src
                   /\ k.out[i].page_content =
                          LastUnits(k.raw[i - 1].page_content, cfg.chunk_overlap,
                                    cfg.overlap_unit, cfg.encoding_name)
                              \o k.raw[i].page_content

C4_Witness ==
    \E c \in Callers :
        LET k == call[c] IN
        /\ k.pc = "done"
        /\ cfg.chunk_overlap >= 2
        /\ Len(k.raw) >= 3
        /\ Count(cfg.overlap_unit, cfg.encoding_name, k.raw[2].page_content)
               < cfg.chunk_overlap
        /\ k.out[3].page_content = k.raw[2].page_content \o k.raw[3].page_content
        /\ k.out[2].page_content # k.raw[2].page_content

\* C5: every raw chunk the base splitter emits has at most cfg.chunk_size units
\* in the configured unit, on the character path and on the token path.
C5_RawChunksWithinChunkSize ==
    \A c \in Callers :
        LET k == call[c] IN
        k.pc \in {"raw", "injected", "done"} =>
            \A i \in 1..Len(k.raw) :
                Count(cfg.overlap_unit, cfg.encoding_name, k.raw[i].page_content)
                    <= cfg.chunk_size

\* C6: create returns no chunker for a configuration with
\* chunk_overlap >= chunk_size or with an overlap_unit other than
\* "characters" and "tokens".
C6_InvalidConfigRejected ==
    (cfg.chunk_overlap >= cfg.chunk_size
        \/ cfg.overlap_unit \notin {"characters", "tokens"})
        => (created # "ok" /\ chunker = NoChunker)

\* C7: every chunk of a call carries the metadata of the document it was
\* derived from (for split_text: the metadata argument, or the empty mapping
\* when none is given), before and after overlap injection, which changes
\* content only.
C7_MetadataOfSource ==
    \A c \in Callers :
        LET k == call[c] IN
        /\ k.api = "split_text" =>
               /\ Len(k.docs) = 1
               /\ k.docs[1].metadata =
                      (IF k.meta_arg \in {None, EmptyMeta} THEN EmptyMeta
                       ELSE k.meta_arg)
        /\ \A i \in 1..Len(k.raw) :
               k.raw[i].metadata = k.docs[k.raw[i].src].metadata
        /\ k.pc \in {"injected", "done"} =>
               /\ Len(k.out) = Len(k.raw)
               /\ \A i \in 1..Len(k.out) :
                      /\ k.out[i].metadata = k.raw[i].metadata
                      /\ k.out[i].src = k.raw[i].src
        /\ (k.pc = "done" /\ (k.api = "split_documents" \/ k.return_docs)) =>
               /\ Len(k.ret) = Len(k.out)
               /\ \A i \in 1..Len(k.ret) :
                      k.ret[i].metadata = k.docs[k.ret[i].src].metadata

\* C7, second half: a call in flight leaves its input documents as they are.
C7_InputUntouched ==
    \A c \in Callers :
        (call[c].pc # "idle" /\ call'[c].pc # "idle") => call'[c].docs = call[c].docs

\* C7: the two halves together.
C7_MetadataPreserved == []C7_MetadataOfSource /\ [][C7_InputUntouched]_vars

C7_Witness ==
    \E c \in Callers :
        LET k == call[c] IN
        /\ k.pc = "done"
        /\ k.api = "split_text"
        /\ k.return_docs
        /\ k.meta_arg = "m1"
        /\ cfg.chunk_overlap > 0
        /\ Len(k.ret) >= 2
        /\ k.ret[2].page_content # k.raw[2].page_content
        /\ k.ret[2].metadata = "m1"

\* C8: overlap_unit alone selects the pipeline.  "characters": the plain
\* splitter with cfg.chunk_size, overlap injected in characters, and no call
\* reaches the semantic splitter.  "tokens": the semantic splitter inside the
\* guard, overlap injected in tokens under cfg.encoding_name.  Either base
\* splitter is built with chunk_overlap = 0.
C8_PipelineByOverlapUnit ==
    created = "ok" =>
        /\ chunker._overlap = cfg.chunk_overlap
        /\ chunker._unit = cfg.overlap_unit
        /\ chunker._enc_name = cfg.encoding_name
        /\ CharacterPath =>
               /\ chunker._base.kind = "RecursiveCharacterTextSplitter"
               /\ chunker._base.chunk_size = cfg.chunk_size
               /\ chunker._base.chunk_overlap = 0
               /\ \A c \in Callers :
                      /\ ~call[c].semCalled
                      /\ call[c].mode = NoMode
                      /\ call[c].pc \notin {"semantic_returned", "raised"}
                      /\ call[c].pc \in {"injected", "done"} =>
                             call[c].out = InjectOverlap(call[c].raw, cfg.chunk_overlap,
                                                         "characters", None)
        /\ TokenPath =>
               /\ chunker._base.kind = "_SafeSemantic"
               /\ chunker._base._semantic.kind = "SemanticChunker"
               /\ chunker._base._backup.chunk_size = cfg.chunk_size
               /\ chunker._base._backup.chunk_overlap = 0
               /\ \A c \in Callers :
                      /\ call[c].pc \notin {"idle", "called"} => call[c].semCalled
                      /\ call[c].pc \in {"injected", "done"} =>
                             call[c].out = InjectOverlap(call[c].raw, cfg.chunk_overlap,
                                                         "tokens", cfg.encoding_name)

C8_Witness ==
    \E c \in Callers :
        /\ created = "ok"
        /\ CharacterPath
        /\ cfg.encoding_name = "p50k_base"
        /\ cfg.chunk_overlap > 0
        /\ call[c].pc = "done"
        /\ Len(call[c].out) >= 2
        /\ ~call[c].semCalled

\* What one call returns when it runs alone on the chunker create built.
SplitAlone(api, docs, return_docs, mode) ==
    LET ch == Create(cfg)
        sem == SemanticSplitDocuments(mode, docs)
        raw == IF ch._base.kind = "RecursiveCharacterTextSplitter"
               THEN CharSplitDocuments(ch._base, docs)
               ELSE IF Len(sem) > 1 THEN sem
                    ELSE BackupSplitDocuments(ch._base._backup, docs)
        out == InjectOverlap(raw, ch._overlap, ch._unit, ch._enc_name)
    IN  IF api = "split_text" THEN TextReturn(out, return_docs) ELSE out

\* C9, state half: whatever the other client is doing, a completed call has
\* returned what it returns when run alone.
C9_ResultAsAlone ==
    \A c \in Callers :
        call[c].pc = "done" =>
            call[c].ret = SplitAlone(call[c].api, call[c].docs,
                                     call[c].return_docs, call[c].mode)

\* C9, frame half: no step of a split call writes the constructed chunker.
C9_ChunkerUnwritten == created = "ok" => chunker' = chunker

\* C9: concurrent calls on one chunker leave it unchanged and each returns
\* its stand-alone result.
C9_CallsIndependent == []C9_ResultAsAlone /\ [][C9_ChunkerUnwritten]_vars

C9_Witness ==
    /\ call["c1"].pc = "done"
    /\ call["c1"].guard = "FALLBACK"
    /\ call["c2"].pc = "injected"
    /\ call["c2"].guard = "ACCEPT"
    /\ Len(call["c1"].ret) >= 2

\* C10: in a batch the guard decides for each document on its own: a document
\* of more than chunk_size tokens that the semantic pass leaves in at most one
\* chunk is re-split by the deterministic splitter, whatever the other
\* documents of the batch yield.
C10_FallbackPerDocument ==
    \A c \in Callers :
        LET k == call[c] IN
        (TokenPath /\ k.pc \in {"raw", "injected", "done"}) =>
            \A d \in 1..Len(k.docs) :
                (/\ Count("tokens", cfg.encoding_name, k.docs[d].page_content)
                        > cfg.chunk_size
                 /\ Len(SemanticSplitText(k.mode, k.docs[d].page_content)) <= 1)
                    => LET FromD(x) == x.src = d IN
                       SelectSeq(k.raw, FromD) =
                           ChunksOf(k.docs[d], d,
                                    DetSplitText(k.docs[d].page_content,
                                                 cfg.separators, cfg.chunk_size,
                                                 "tokens", cfg.encoding_name))

====
